---------------------------- MODULE Spec2Model ----------------------------
(***************************************************************************)
(* A model of the LSIF reader of lsif-lang-server:                         *)
(*   - the Interner            (src/src/reader/interner.rs),               *)
(*   - the element decoder     (src/src/reader/deserialize.rs),            *)
(*   - the read_async pipeline (src/src/reader/reader.rs).                 *)
(*                                                                         *)
(* Three specifications share the module:                                  *)
(*   SpecIntern  threads calling Interner::intern on clones of one         *)
(*               Interner, one step per lock operation;                    *)
(*   SpecDecode  successive calls of deserialize_element on one Interner;  *)
(*   Spec        the threads of read_lines (line source, worker pool       *)
(*               manager, decode tasks, sequencer) and the caller.         *)
(* Each specification leaves the variables of the others at their initial  *)
(* values.                                                                 *)
(***************************************************************************)
EXTENDS Integers, Sequences, FiniteSets, TLC

VARIABLES
    \* ---- Interner (interner.rs:14-16) ----
    imap,        \* Interner.map: HashMap<String, u64>, a function string -> id
    ilock,       \* holder of the Mutex around the map: "free" or a thread
    allocs,      \* ghost: number of map.insert calls executed so far
    \* ---- threads calling intern (SpecIntern) ----
    it_pc,       \* per thread: "idle" | "lock" | "lookup" | "insert" | "done" | "panicked"
    it_raw,      \* per thread: the raw argument of the call in progress / last call
    it_s,        \* per thread: local s, the text between the quotes
    it_id,       \* per thread: local id computed at interner.rs:51
    it_ret,      \* per thread: the value returned by the last call
    seen,        \* ghost: raw input -> the value its first completed call returned
    ncalls,      \* ghost: number of intern calls started
    \* ---- calls of deserialize_element (SpecDecode) ----
    dec_hist,    \* ghost: the calls made so far, each [line, res]
    \* ---- read_lines (reader.rs:33-157) ----
    input,       \* the lines of the reader r, in order
    rd_pc,       \* line source thread: "run" | "done" | "panicked"
    rd_pos,      \* number of lines the line source has read
    rd_idx,      \* local idx of the line source (reader.rs:55)
    line_q,      \* channel line_send/line_recv: sequence of [slot, k, line]
    reader_done, \* RwLock<bool> reader_done (reader.rs:48)
    worker_done, \* RwLock<bool> worker_done (reader.rs:49)
    mtx_owner,   \* holder of the Mutex of signal: "none" | "mgr" | "seq"
    poisoned,    \* the Mutex of signal is poisoned (a holder panicked)
    ready,       \* the bool guarded by the Mutex of signal (reader.rs:41)
    mgr_pc,      \* worker manager thread
    mgr_round,   \* ghost: rounds the worker manager has started
    task_pc,     \* per decode task of the round: "idle" | "recv" | "decode" | "send" | "finished" | "panicked"
    task_item,   \* per decode task: the [slot, k, line, res] it works on
    results_q,   \* channel results_send/results_recv: sequence of [slot, k, res]
    seq_pc,      \* sequencer thread
    seq_n,       \* loop counter of the sequencer's for loops
    elements,    \* the sequencer's reorder buffer (reader.rs:122)
    out_q,       \* channel element_sender/element_reciever
    received,    \* ghost: what the caller has received, in order
    caller_pc    \* the caller: "recv" | "disconnected" | "dropped"

ivars == <<imap, ilock, allocs>>
tvars == <<it_pc, it_raw, it_s, it_id, it_ret, seen, ncalls>>
dvars == <<dec_hist>>
pvars == <<input, rd_pc, rd_pos, rd_idx, line_q, reader_done, worker_done,
           mtx_owner, poisoned, ready, mgr_pc, mgr_round, task_pc, task_item,
           results_q, seq_pc, seq_n, elements, out_q, received, caller_pc>>
vars == <<ivars, tvars, dvars, pvars>>

----------------------------------------------------------------------------
(* Bounds of the model. *)

\* longest text (the bytes of a bare input, or the bytes between the quotes;
\* a '+' in front of a digit string is not counted)
MaxTextLen == 1
\* intern calls started in one behaviour of SpecIntern
MaxCalls == 2

\* calls of deserialize_element in one behaviour of SpecDecode
MaxDecodes == 2

\* lines of the input handed to read_async
MaxLines == 3

\* threads holding a clone of the Interner
Threads == {"t1", "t2"}

----------------------------------------------------------------------------
(* Bytes and byte strings.  A byte string is a sequence of one-character   *)
(* strings.                                                                *)

Q == "\""

Alphabet == {Q, "0", "1", "a"}

RECURSIVE StringsOfLen(_)
StringsOfLen(n) ==
    IF n = 0 THEN {<<>>}
    ELSE {Append(s, c) : s \in StringsOfLen(n - 1), c \in Alphabet}

StringsUpTo(n) == UNION {StringsOfLen(k) : k \in 0..n}

Texts == StringsUpTo(MaxTextLen)

Quote(s) == <<Q>> \o s \o <<Q>>

\* a '+' alone and in front of the strings of the digit 1: texts that
\* str::parse::<u64> treats differently from the other non-digit texts
SignedTexts ==
    {<<"+">> \o s : s \in {x \in Texts : \A i \in 1..Len(x) : x[i] = "1"}}

\* The raw inputs of intern: every text bare (the empty input, a lone quote,
\* numerals, signed numerals, non-numerals) and every text between quotes.
RawInputs ==
    Texts \cup SignedTexts \cup {Quote(s) : s \in Texts \cup SignedTexts}

----------------------------------------------------------------------------
(* Results.  Every result is a record [kind, v]: Ok(v), an error value, or *)
(* a panic of the calling thread.                                          *)

Ok(v) == [kind |-> "ok", v |-> v]
ParseIntError == [kind |-> "err", v |-> "IDParse"]
Panic == [kind |-> "panic", v |-> "panic"]
NoResult == [kind |-> "none", v |-> "none"]

----------------------------------------------------------------------------
(* str::parse::<u64>: an optional leading '+', then one or more decimal    *)
(* digits, read positionally.  The strings of the model are at most a few  *)
(* digits long, so the overflow error of parse cannot arise.               *)

IsDigit(c) == c \in {"0", "1", "2", "3", "4", "5", "6", "7", "8", "9"}

DigitVal(c) ==
    CASE c = "0" -> 0 [] c = "1" -> 1 [] c = "2" -> 2 [] c = "3" -> 3
      [] c = "4" -> 4 [] c = "5" -> 5 [] c = "6" -> 6 [] c = "7" -> 7
      [] c = "8" -> 8 [] c = "9" -> 9

RECURSIVE DecVal(_)
DecVal(s) ==
    IF s = <<>> THEN 0
    ELSE DecVal(SubSeq(s, 1, Len(s) - 1)) * 10 + DigitVal(s[Len(s)])

ParseU64(s) ==
    LET body == IF s # <<>> /\ Head(s) = "+" THEN Tail(s) ELSE s
    IN  IF body = <<>> \/ \E i \in 1..Len(body) : ~IsDigit(body[i])
        THEN ParseIntError
        ELSE Ok(DecVal(body))

----------------------------------------------------------------------------
(* Interner::intern, interner.rs:30-54.                                    *)

EmptyMap == [s \in {} |-> 0]

\* interner.rs:47
ContainsKey(map, s) == s \in DOMAIN map

\* mutant of LookupId: a hit hands out a fresh id instead of the stored one
LookupIdFresh(map, s) == Cardinality(DOMAIN map) + 1

\* interner.rs:48  *map.get(&s).unwrap()
LookupId(map, s) == map[s]

\* mutant of NextId: map.len() clamped to 1 instead of map.len() + 1
NextIdClamped(map) == IF Cardinality(DOMAIN map) = 0 THEN 1 ELSE Cardinality(DOMAIN map)

\* mutant of NextId: ids counted from 0 (map.len() without the + 1)
NextIdZeroBased(map) == Cardinality(DOMAIN map)

\* interner.rs:51  (map.len() + 1) as u64
NextId(map) == Cardinality(DOMAIN map) + 1

\* mutant of Insert: the insertion replaces the map by one with the new
\* entry alone
InsertFresh(map, s, id) == [x \in {s} |-> id]

\* interner.rs:52  map.insert(s, id)
Insert(map, s, id) == [x \in (DOMAIN map) \cup {s} |-> IF x = s THEN id ELSE map[x]]

\* mutant of InternFast: the quoted text is not tried as a number
\* (interner.rs:41-44 left out), so a quoted numeral is interned like a string
InternFastNoQuotedNumber(raw) ==
    IF raw = <<>> THEN [kind |-> "ret", res |-> Ok(0), s |-> <<>>]
    ELSE IF raw[1] # Q THEN [kind |-> "ret", res |-> ParseU64(raw), s |-> <<>>]
    ELSE IF Len(raw) < 2 THEN [kind |-> "ret", res |-> Panic, s |-> <<>>]
    ELSE [kind |-> "slow", res |-> NoResult, s |-> SubSeq(raw, 2, Len(raw) - 1)]

\* mutant of InternFast: an unquoted text that is no number is not refused
\* but interned as it stands (the ? of interner.rs:37 left out)
InternFastInternsBare(raw) ==
    IF raw = <<>> THEN [kind |-> "ret", res |-> Ok(0), s |-> <<>>]
    ELSE IF raw[1] # Q
         THEN IF ParseU64(raw).kind = "ok"
              THEN [kind |-> "ret", res |-> ParseU64(raw), s |-> <<>>]
              ELSE [kind |-> "slow", res |-> NoResult, s |-> raw]
    ELSE IF Len(raw) < 2 THEN [kind |-> "ret", res |-> Panic, s |-> <<>>]
    ELSE IF ParseU64(SubSeq(raw, 2, Len(raw) - 1)).kind = "ok"
         THEN [kind |-> "ret", res |-> ParseU64(SubSeq(raw, 2, Len(raw) - 1)),
               s |-> SubSeq(raw, 2, Len(raw) - 1)]
         ELSE [kind |-> "slow", res |-> NoResult, s |-> SubSeq(raw, 2, Len(raw) - 1)]

\* interner.rs:31-44: the part of intern that runs before the lock is taken.
\* kind "slow" means the call goes on to lock the map with the local s.
InternFast(raw) ==
    IF raw = <<>> THEN [kind |-> "ret", res |-> Ok(0), s |-> <<>>]
    ELSE IF raw[1] # Q THEN [kind |-> "ret", res |-> ParseU64(raw), s |-> <<>>]
    ELSE IF Len(raw) < 2
         \* raw[1..raw.len() - 1] with raw.len() = 1: slice index panic
         THEN [kind |-> "ret", res |-> Panic, s |-> <<>>]
    ELSE LET s == SubSeq(raw, 2, Len(raw) - 1)
             p == ParseU64(s)
         IN  IF p.kind = "ok" THEN [kind |-> "ret", res |-> p, s |-> s]
             ELSE [kind |-> "slow", res |-> NoResult, s |-> s]

\* interner.rs:46-53: the critical section, as one step.
InternSlow(map, s) ==
    IF ContainsKey(map, s)
    THEN [res |-> Ok(LookupId(map, s)), map |-> map, inserted |-> 0]
    ELSE [res |-> Ok(NextId(map)), map |-> Insert(map, s, NextId(map)), inserted |-> 1]

\* interner.rs:30-54: one whole call by a thread that is not interleaved.
Intern(map, raw) ==
    LET f == InternFast(raw)
    IN  IF f.kind = "ret" THEN [res |-> f.res, map |-> map, inserted |-> 0]
        ELSE InternSlow(map, f.s)

----------------------------------------------------------------------------
(* JSON as serde_json reads it.  A line is either not a JSON object, or an *)
(* object: id, outV, inV, document are serde_json Values, inVs a Value     *)
(* that may be an array of Values, and every other member is in `fields`.  *)

\* serde_json::Value for an identifier-like member
JInt(n) == [t |-> "uint", n |-> n, s |-> <<>>]    \* Number that as_u64() accepts
JStr(s) == [t |-> "str", n |-> 0, s |-> s]        \* String; s is what as_str() gives
JNull == [t |-> "null", n |-> 0, s |-> <<>>]
\* a boolean, a negative or fractional number, an array or an object
JOther == [t |-> "other", n |-> 0, s |-> <<>>]
JAbsent == [t |-> "absent", n |-> 0, s |-> <<>>]  \* the member is not in the object

\* the member inVs
JArray(items) == [t |-> "array", items |-> items]
NoArray(tag) == [t |-> tag, items |-> <<>>]       \* tag: "absent" | "null" | "other"

\* the other members: text, a text that is a URL, a {line, character} position
TText(x) == [t |-> "str", s |-> x, a |-> 0, b |-> 0]
TUrl(x) == [t |-> "url", s |-> x, a |-> 0, b |-> 0]
TPos(l, c) == [t |-> "pos", s |-> "", a |-> l, b |-> c]
TNull == [t |-> "null", s |-> "", a |-> 0, b |-> 0]
TAbsent == [t |-> "absent", s |-> "", a |-> 0, b |-> 0]

Field(line, name) == IF name \in DOMAIN line.fields THEN line.fields[name] ELSE TAbsent

\* serde reads a member declared String: present and a JSON string
IsString(line, name) == Field(line, name).t \in {"str", "url"}

----------------------------------------------------------------------------
(* types.rs: Element, Payload, ProtocolError.                              *)

NoEdge == [out_v |-> 0, in_v |-> 0, in_vs |-> <<>>, document |-> 0]

\* Option<Payload>: variant "None" is the absent payload
MkPayload(variant, edge, text, nums) ==
    [variant |-> variant, edge |-> edge, text |-> text, nums |-> nums]

NoPayload == MkPayload("None", NoEdge, <<>>, <<>>)

NoElement == [id |-> 0, el_type |-> "", label |-> "", payload |-> NoPayload]

\* the outcome of a decoder: kind "ok" | "err" | "panic"; err names the
\* ProtocolError variant; map is the interner's map after the call
DecOk(payload, map, ins) ==
    [kind |-> "ok", err |-> "", payload |-> payload, map |-> map, inserted |-> ins]
DecErr(e, map, ins) ==
    [kind |-> "err", err |-> e, payload |-> NoPayload, map |-> map, inserted |-> ins]
DecPanic(map, ins) ==
    [kind |-> "panic", err |-> "", payload |-> NoPayload, map |-> map, inserted |-> ins]

----------------------------------------------------------------------------
(* deserialize.rs.                                                         *)

\* value.as_u64().unwrap() (deserialize.rs:49, 86, 93, 104, 120)
AsU64Unwrap(v) == IF v.t = "uint" THEN Ok(v.n) ELSE Panic

\* ResolveValue handing the Interner the string in its JSON-encoded form
ResolveValueQuoted(map, v) ==
    IF v.t = "str" THEN Intern(map, Quote(v.s))
    ELSE [res |-> AsU64Unwrap(v), map |-> map, inserted |-> 0]

\* deserialize.rs:45-50, 83-87, 90-94, 101-105: a string goes to the
\* interner as the bytes of as_str(), anything else through as_u64().unwrap()
ResolveValue(map, v) ==
    IF v.t = "str"
    THEN Intern(map, v.s)
    ELSE [res |-> AsU64Unwrap(v), map |-> map, inserted |-> 0]

\* mutant of ResolveOptional: the member is read like outV, as if it were
\* required (an omitted one goes through as_u64().unwrap())
ResolveOptionalRequired(map, v) == ResolveValue(map, v)

\* deserialize.rs:89-98, 100-109: Option<Value>, None when absent or null
ResolveOptional(map, v) ==
    IF v.t \in {"absent", "null"}
    THEN [res |-> Ok(0), map |-> map, inserted |-> 0]
    ELSE ResolveValue(map, v)

\* deserialize.rs:114-124: the elements of inVs in order; the interner's
\* error is unwrapped, so it is a panic here
RECURSIVE ResolveAll(_, _, _, _)
ResolveAll(map, items, acc, ins) ==
    IF items = <<>> THEN [res |-> Ok(acc), map |-> map, inserted |-> ins]
    ELSE LET r == ResolveValue(map, Head(items))
         IN  IF r.res.kind # "ok"
             THEN [res |-> Panic, map |-> r.map, inserted |-> ins + r.inserted]
             ELSE ResolveAll(r.map, Tail(items), Append(acc, r.res.v), ins + r.inserted)

\* how a failed resolution ends the decoder: `?` turns ParseIntError into
\* ProtocolError::IDParse, a panic unwinds
Fail(r, ins) ==
    IF r.res.kind = "err" THEN DecErr("IDParse", r.map, ins + r.inserted)
    ELSE DecPanic(r.map, ins + r.inserted)

\* deserialize.rs:128-133: the Edge payload, all members resolved
EdgeBuild(o, i, d, vs) ==
    IF vs.res.kind # "ok"
    THEN DecPanic(vs.map, o.inserted + i.inserted + d.inserted + vs.inserted)
    ELSE DecOk(MkPayload("Edge",
                         [out_v |-> o.res.v, in_v |-> i.res.v,
                          in_vs |-> vs.res.v, document |-> d.res.v],
                         <<>>, <<>>),
               vs.map, o.inserted + i.inserted + d.inserted + vs.inserted)

\* deserialize.rs:111-126: in_vs, after document
EdgeInVs(line, o, i, d) ==
    IF d.res.kind # "ok" THEN Fail(d, o.inserted + i.inserted)
    ELSE EdgeBuild(o, i, d, ResolveAll(d.map, line.inVs.items, <<>>, 0))

\* deserialize.rs:100-109: document, after in_v
EdgeDocument(line, o, i) ==
    IF i.res.kind # "ok" THEN Fail(i, o.inserted)
    ELSE EdgeInVs(line, o, i, ResolveOptional(i.map, line.document))

\* deserialize.rs:89-98: in_v, after out_v
EdgeInV(line, o) ==
    IF o.res.kind # "ok" THEN Fail(o, 0)
    ELSE EdgeDocument(line, o, ResolveOptional(o.map, line.inV))

\* deserialize.rs:68-134: serde reads EdgePayload (outV required, inVs an
\* array when present and not null), then out_v, in_v, document, in_vs
DeserializeEdge(map, line) ==
    IF line.outV.t = "absent" \/ line.inVs.t = "other"
    THEN DecErr("JSONParse", map, 0)
    ELSE EdgeInV(line, ResolveValue(map, line.outV))

\* deserialize.rs:136-150
DeserializeMetadata(map, line) ==
    IF IsString(line, "version") /\ IsString(line, "projectRoot")
    THEN DecOk(MkPayload("MetaData", NoEdge,
                         <<Field(line, "version").s, Field(line, "projectRoot").s>>, <<>>),
               map, 0)
    ELSE DecErr("JSONParse", map, 0)

\* deserialize.rs:152-161
DeserializeDocument(map, line) ==
    IF Field(line, "uri").t = "url"
    THEN DecOk(MkPayload("Document", NoEdge, <<Field(line, "uri").s>>, <<>>), map, 0)
    ELSE DecErr("JSONParse", map, 0)

\* deserialize.rs:163-172
DeserializeRange(map, line) ==
    IF Field(line, "start").t = "pos" /\ Field(line, "end").t = "pos"
    THEN DecOk(MkPayload("Range", NoEdge, <<>>,
                         <<Field(line, "start").a, Field(line, "start").b,
                           Field(line, "end").a, Field(line, "end").b>>),
               map, 0)
    ELSE DecErr("JSONParse", map, 0)

\* deserialize.rs:174-176
DeserializeHover(map, line) == DecErr("Other", map, 0)

\* DeserializeMoniker without the default for an empty scheme
DeserializeMonikerNoDefault(map, line) ==
    IF IsString(line, "kind") /\ IsString(line, "scheme") /\ IsString(line, "identifier")
    THEN DecOk(MkPayload("Moniker", NoEdge,
                         <<Field(line, "kind").s, Field(line, "scheme").s,
                           Field(line, "identifier").s>>,
                         <<>>),
               map, 0)
    ELSE DecErr("JSONParse", map, 0)

\* deserialize.rs:178-197
DeserializeMoniker(map, line) ==
    IF IsString(line, "kind") /\ IsString(line, "scheme") /\ IsString(line, "identifier")
    THEN LET scheme == IF Field(line, "scheme").s = "" THEN "local"
                       ELSE Field(line, "scheme").s
         IN  DecOk(MkPayload("Moniker", NoEdge,
                             <<Field(line, "kind").s, scheme, Field(line, "identifier").s>>,
                             <<>>),
                   map, 0)
    ELSE DecErr("JSONParse", map, 0)

\* deserialize.rs:199-212
DeserializePackageInfo(map, line) ==
    IF IsString(line, "name") /\ IsString(line, "version")
    THEN DecOk(MkPayload("PackageInformation", NoEdge,
                         <<Field(line, "name").s, Field(line, "version").s>>, <<>>),
               map, 0)
    ELSE DecErr("JSONParse", map, 0)

\* deserialize.rs:214-224
DeserializeDiagnostics(map, line) ==
    IF IsString(line, "name") /\ IsString(line, "version")
    THEN DecOk(MkPayload("Diagnostics", NoEdge, <<>>, <<>>), map, 0)
    ELSE DecErr("JSONParse", map, 0)

\* deserialize.rs:15-31: the keys of VERTEX_DESERIALIZERS
VertexLabels ==
    {"metaData", "document", "range", "hoverResult", "moniker",
     "packageInformation", "diagnosticResult"}

\* deserialize.rs:15-31, 58-59: the decoder the table holds for a label
VertexDeserialize(label, map, line) ==
    CASE label = "metaData" -> DeserializeMetadata(map, line)
      [] label = "document" -> DeserializeDocument(map, line)
      [] label = "range" -> DeserializeRange(map, line)
      [] label = "hoverResult" -> DeserializeHover(map, line)
      [] label = "moniker" -> DeserializeMoniker(map, line)
      [] label = "packageInformation" -> DeserializePackageInfo(map, line)
      [] label = "diagnosticResult" -> DeserializeDiagnostics(map, line)

\* the Result<Element> of deserialize_element, or the panic it ends in
ElResult(kind, err, el, map, ins) ==
    [kind |-> kind, err |-> err, el |-> el, map |-> map, inserted |-> ins]

\* deserialize.rs:52-65: the Element, once the payload is decoded
ElementBuild(line, id, p) ==
    IF p.kind # "ok"
    THEN ElResult(p.kind, p.err, NoElement, p.map, id.inserted + p.inserted)
    ELSE ElResult("ok", "",
                  [id |-> id.res.v, el_type |-> Field(line, "type").s,
                   label |-> Field(line, "label").s, payload |-> p.payload],
                  p.map, id.inserted + p.inserted)

\* ElementPayload with the dispatch table consulted before the type
ElementPayloadLabelFirst(line, id) ==
    IF Field(line, "label").s \in VertexLabels
    THEN VertexDeserialize(Field(line, "label").s, id.map, line)
    ELSE IF Field(line, "type").s = "edge"
    THEN DeserializeEdge(id.map, line)
    ELSE DecOk(NoPayload, id.map, 0)

\* ElementPayload with an unknown label taken for a decode error
ElementPayloadStrict(line, id) ==
    IF Field(line, "type").s = "edge"
    THEN DeserializeEdge(id.map, line)
    ELSE IF Field(line, "label").s \in VertexLabels
    THEN VertexDeserialize(Field(line, "label").s, id.map, line)
    ELSE DecErr("Other", id.map, 0)

\* deserialize.rs:56-62: the payload by type, then by label
ElementPayload(line, id) ==
    IF Field(line, "type").s = "edge"
    THEN DeserializeEdge(id.map, line)
    ELSE IF Field(line, "label").s \in VertexLabels
    THEN VertexDeserialize(Field(line, "label").s, id.map, line)
    ELSE DecOk(NoPayload, id.map, 0)

\* deserialize.rs:45-65: after the id is resolved
ElementWithId(line, id) ==
    IF id.res.kind = "err"
    THEN ElResult("err", "IDParse", NoElement, id.map, id.inserted)
    ELSE IF id.res.kind = "panic"
    THEN ElResult("panic", "", NoElement, id.map, id.inserted)
    ELSE ElementBuild(line, id, ElementPayload(line, id))

\* deserialize.rs:33-66: serde reads JSONPayload (id any value, type and
\* label strings), then the id is resolved, then the payload decoded
DeserializeElement(map, line) ==
    IF ~line.json \/ line.id.t = "absent"
       \/ ~IsString(line, "type") \/ ~IsString(line, "label")
    THEN ElResult("err", "JSONParse", NoElement, map, 0)
    ELSE ElementWithId(line, ResolveValue(map, line.id))

----------------------------------------------------------------------------
(* The lines the model decodes.                                            *)

\* the texts a JSON string identifier may hold: empty, a numeral, a
\* non-numeral, a lone quote, and texts that themselves carry quotes
IdTexts == {<<>>, <<"1">>, <<"a">>, <<Q>>, Quote(<<"a">>), Quote(<<"1">>)}

\* the values an identifier-like member may hold when present
IdValues == {JInt(2), JInt(4)} \cup {JStr(s) : s \in IdTexts} \cup {JNull, JOther}

Envelope(type, label) == ("type" :> TText(type)) @@ ("label" :> TText(label))

MkLine(json, id, outV, inV, inVs, document, fields) ==
    [json |-> json, id |-> id, outV |-> outV, inV |-> inV, inVs |-> inVs,
     document |-> document, fields |-> fields]

\* bytes that are not a JSON object, such as { id: 2, type: "vertex" }
MalformedLine ==
    MkLine(FALSE, JAbsent, JAbsent, JAbsent, NoArray("absent"), JAbsent, <<>>)

Vertex(id, label, more) ==
    MkLine(TRUE, id, JAbsent, JAbsent, NoArray("absent"), JAbsent,
           more @@ Envelope("vertex", label))

\* { "id": 54, "type": "edge", "label": "contains", "outV": 2 }
BaseEdge ==
    MkLine(TRUE, JInt(54), JInt(2), JAbsent, NoArray("absent"), JAbsent,
           Envelope("edge", "contains"))

EnvelopeLines ==
    {MalformedLine}
    \cup {Vertex(id, "project", <<>>) : id \in IdValues \cup {JAbsent}}
    \cup {Vertex(JInt(5), "$event", ("kind" :> TText("begin")))}
    \cup {[Vertex(JInt(2), "project", <<>>) EXCEPT !.fields = f] :
             f \in {("label" :> TText("project")),
                    ("type" :> TText("vertex")),
                    ("type" :> TNull) @@ ("label" :> TText("project")),
                    ("type" :> TText("vertex")) @@ ("label" :> TNull)}}

InVsValues ==
    {NoArray("absent"), NoArray("null"), NoArray("other"), JArray(<<>>),
     JArray(<<JInt(4)>>), JArray(<<JInt(4), JInt(2)>>)}
    \cup {JArray(<<v>>) : v \in IdValues}
    \cup {JArray(<<JStr(Quote(<<"a">>)), v>>) : v \in {JStr(<<"a">>), JOther, JInt(4)}}

EdgeLines ==
    {[BaseEdge EXCEPT !.outV = v] : v \in IdValues \cup {JAbsent}}
    \cup {[BaseEdge EXCEPT !.inV = v] : v \in IdValues}
    \cup {[BaseEdge EXCEPT !.document = v] : v \in IdValues}
    \cup {[BaseEdge EXCEPT !.inVs = a] : a \in InVsValues}
    \cup {[BaseEdge EXCEPT !.id = v] : v \in {JNull, JStr(<<"a">>), JStr(Quote(<<"a">>))}}
    \cup {[BaseEdge EXCEPT !.fields = Envelope("edge", l)] : l \in {"moniker", "hoverResult"}}
    \cup {[BaseEdge EXCEPT !.outV = JStr(Quote(<<"a">>)), !.inV = JStr(Quote(<<"1">>))]}

MonikerFields(scheme) ==
    ("kind" :> TText("export")) @@ ("scheme" :> scheme) @@ ("identifier" :> TText("x"))

VertexLines ==
    {Vertex(JInt(4), "metaData", f) :
        f \in {("version" :> TText("0.4")) @@ ("projectRoot" :> TText("file:///p")),
               ("version" :> TText("0.4"))}}
    \cup {Vertex(JInt(4), "document", f) :
        f \in {("uri" :> TUrl("file:///s.ts")), ("uri" :> TText("no url")), <<>>}}
    \cup {Vertex(JInt(4), "range", f) :
        f \in {("start" :> TPos(1, 2)) @@ ("end" :> TPos(3, 4)), ("start" :> TPos(1, 2))}}
    \cup {Vertex(JInt(4), "hoverResult", f) :
        f \in {<<>>, ("result" :> TText("hover"))}}
    \cup {Vertex(JInt(4), "moniker", f) :
        f \in {MonikerFields(TText("")), MonikerFields(TText("tsc")),
               MonikerFields(TNull), ("kind" :> TText("export"))}}
    \cup {Vertex(JInt(4), "packageInformation", f) :
        f \in {("name" :> TText("pkg")) @@ ("version" :> TText("1.0")),
               ("name" :> TText("pkg"))}}
    \cup {Vertex(JInt(4), "diagnosticResult", f) :
        f \in {("name" :> TText("pkg")) @@ ("version" :> TText("1.0")),
               ("result" :> TText("diags")), <<>>}}

\* an edge that carries the label, and the fields, of a vertex of the table
LabelledEdgeLines ==
    {[BaseEdge EXCEPT !.fields = MonikerFields(TText("tsc")) @@ Envelope("edge", "moniker")]}

\* moniker records with another kind and identifier
MonikerLines ==
    {Vertex(JInt(4), "moniker",
            ("kind" :> TText("import")) @@ ("scheme" :> s) @@ ("identifier" :> TText("y"))) :
        s \in {TText(""), TText("npm")}}

Lines ==
    EnvelopeLines \cup EdgeLines \cup VertexLines \cup LabelledEdgeLines
    \cup MonikerLines

----------------------------------------------------------------------------
(* reader.rs: constants and the lines of the pipeline's input.             *)

\* reader.rs:18  WORKER_COUNT = num_cpus::get(); the model runs on 2 CPUs
WORKER_COUNT == 2

\* reader.rs:17  LINE_BUFFER_SIZE = get() * get()
LINE_BUFFER_SIZE == WORKER_COUNT * WORKER_COUNT

\* reader.rs:21
RESULTS_BUFFER_SIZE == 512

Workers == 1..WORKER_COUNT

\* the lines an input is made of: a vertex without payload, the edge of the
\* sample, bytes that are not JSON, a vertex whose decoder always fails, an
\* edge whose inVs holds a non-numeric string, a vertex whose id is interned
SampleLines ==
    {Vertex(JInt(2), "project", <<>>),
     [BaseEdge EXCEPT !.inVs = JArray(<<JInt(4)>>)],
     MalformedLine,
     Vertex(JInt(4), "hoverResult", <<>>),
     [BaseEdge EXCEPT !.inVs = JArray(<<JStr(<<"a">>)>>)],
     Vertex(JStr(Quote(<<"a">>)), "project", <<>>)}

RECURSIVE SeqsOfLen(_, _)
SeqsOfLen(S, n) ==
    IF n = 0 THEN {<<>>}
    ELSE {Append(s, x) : s \in SeqsOfLen(S, n - 1), x \in S}

Inputs == UNION {SeqsOfLen(SampleLines, n) : n \in 0..MaxLines}

NoLine == MalformedLine

\* what a decode task holds: the (idx, line) it received (k is a ghost, the
\* position of the line in the input) and the Result<Element> it computed
NoRes == [kind |-> "none", err |-> "", el |-> NoElement]
NoItem == [slot |-> 0, k |-> 0, line |-> NoLine, res |-> NoRes]

----------------------------------------------------------------------------
(* SpecIntern: threads calling intern on clones of one Interner.           *)

\* mutant of LockFree: lock() returns although another thread holds the lock
LockAlwaysFree == TRUE

\* Mutex::lock (interner.rs:46) returns only when no thread holds the lock.
LockFree == ilock = "free"

\* ghost: remember the value the first completed call on raw returned
Remember(sn, raw, res) ==
    IF raw \in DOMAIN sn THEN sn
    ELSE [x \in (DOMAIN sn) \cup {raw} |-> IF x = raw THEN res ELSE sn[x]]

\* the pipeline before read_async is called
InitPipelineIdle ==
    /\ input = <<>>
    /\ rd_pc = "idle" /\ rd_pos = 0 /\ rd_idx = 0
    /\ line_q = <<>>
    /\ reader_done = FALSE /\ worker_done = FALSE
    /\ mtx_owner = "none" /\ poisoned = FALSE /\ ready = FALSE
    /\ mgr_pc = "idle" /\ mgr_round = 0
    /\ task_pc = <<>> /\ task_item = <<>>
    /\ results_q = <<>>
    /\ seq_pc = "idle" /\ seq_n = 0 /\ elements = <<>>
    /\ out_q = <<>> /\ received = <<>>
    /\ caller_pc = "idle"

InitInterner ==
    /\ imap = EmptyMap
    /\ ilock = "free"
    /\ allocs = 0

InitThreads ==
    /\ it_pc = [t \in Threads |-> "idle"]
    /\ it_raw = [t \in Threads |-> <<>>]
    /\ it_s = [t \in Threads |-> <<>>]
    /\ it_id = [t \in Threads |-> 0]
    /\ it_ret = [t \in Threads |-> NoResult]
    /\ seen = [r \in {} |-> NoResult]
    /\ ncalls = 0

\* interner.rs:30-44: thread t calls intern(raw) and runs up to the lock.
InternBegin(t, raw) ==
    /\ it_pc[t] \in {"idle", "done"}
    /\ ncalls < MaxCalls
    /\ ncalls' = ncalls + 1
    /\ it_raw' = [it_raw EXCEPT ![t] = raw]
    /\ LET f == InternFast(raw)
       IN  /\ it_s' = [it_s EXCEPT ![t] = IF f.kind = "slow" THEN f.s ELSE <<>>]
           /\ IF f.kind = "slow"
              THEN /\ it_pc' = [it_pc EXCEPT ![t] = "lock"]
                   /\ it_ret' = [it_ret EXCEPT ![t] = NoResult]
                   /\ seen' = seen
              ELSE IF f.res.kind = "panic"
              THEN /\ it_pc' = [it_pc EXCEPT ![t] = "panicked"]
                   /\ it_ret' = [it_ret EXCEPT ![t] = Panic]
                   /\ seen' = Remember(seen, raw, Panic)
              ELSE /\ it_pc' = [it_pc EXCEPT ![t] = "done"]
                   /\ it_ret' = [it_ret EXCEPT ![t] = f.res]
                   /\ seen' = Remember(seen, raw, f.res)
    /\ UNCHANGED <<imap, ilock, allocs, it_id, dvars, pvars>>

\* interner.rs:46: self.map.lock().unwrap()
InternLock(t) ==
    /\ it_pc[t] = "lock"
    /\ LockFree
    /\ ilock' = t
    /\ it_pc' = [it_pc EXCEPT ![t] = "lookup"]
    /\ UNCHANGED <<imap, allocs, it_raw, it_s, it_id, it_ret, seen, ncalls, dvars, pvars>>

\* interner.rs:47-51: contains_key; a hit returns (dropping the guard), a miss
\* computes the next id.
InternLookup(t) ==
    /\ it_pc[t] = "lookup"
    /\ IF ContainsKey(imap, it_s[t])
       THEN /\ it_ret' = [it_ret EXCEPT ![t] = Ok(LookupId(imap, it_s[t]))]
            /\ seen' = Remember(seen, it_raw[t], Ok(LookupId(imap, it_s[t])))
            /\ it_pc' = [it_pc EXCEPT ![t] = "done"]
            /\ ilock' = IF ilock = t THEN "free" ELSE ilock
            /\ it_id' = it_id
            /\ it_s' = [it_s EXCEPT ![t] = <<>>]
       ELSE /\ it_id' = [it_id EXCEPT ![t] = NextId(imap)]
            /\ it_pc' = [it_pc EXCEPT ![t] = "insert"]
            /\ UNCHANGED <<it_ret, seen, ilock, it_s>>
    /\ UNCHANGED <<imap, allocs, it_raw, ncalls, dvars, pvars>>

\* interner.rs:52-53: map.insert(s, id); Ok(id); the guard is dropped.
InternInsert(t) ==
    /\ it_pc[t] = "insert"
    /\ imap' = Insert(imap, it_s[t], it_id[t])
    /\ allocs' = allocs + 1
    /\ it_ret' = [it_ret EXCEPT ![t] = Ok(it_id[t])]
    /\ seen' = Remember(seen, it_raw[t], Ok(it_id[t]))
    /\ it_pc' = [it_pc EXCEPT ![t] = "done"]
    /\ ilock' = IF ilock = t THEN "free" ELSE ilock
    /\ it_s' = [it_s EXCEPT ![t] = <<>>]
    /\ it_id' = [it_id EXCEPT ![t] = 0]
    /\ UNCHANGED <<it_raw, ncalls, dvars, pvars>>

InitDecoder == dec_hist = <<>>

InitIntern == InitInterner /\ InitThreads /\ InitDecoder /\ InitPipelineIdle

NextIntern ==
    \E t \in Threads :
        \/ \E raw \in RawInputs : InternBegin(t, raw)
        \/ InternLock(t)
        \/ InternLookup(t)
        \/ InternInsert(t)

SpecIntern == InitIntern /\ [][NextIntern]_vars

----------------------------------------------------------------------------
(* SpecDecode: successive calls of deserialize_element on one Interner.    *)

\* deserialize.rs:33-66: one call; the interner keeps what the call interned
\* also when the call then fails
DecodeCall(line) ==
    /\ Len(dec_hist) < MaxDecodes
    /\ LET r == DeserializeElement(imap, line)
       IN  /\ imap' = r.map
           /\ allocs' = allocs + r.inserted
           /\ dec_hist' = Append(dec_hist,
                                 [line |-> line,
                                  res |-> [kind |-> r.kind, err |-> r.err, el |-> r.el]])
    /\ UNCHANGED <<ilock, tvars, pvars>>

InitDecode == InitInterner /\ InitThreads /\ InitDecoder /\ InitPipelineIdle

NextDecode == \E line \in Lines : DecodeCall(line)

SpecDecode == InitDecode /\ [][NextDecode]_vars

----------------------------------------------------------------------------
(* Spec: read_async / read_lines, reader.rs:23-157.  Three threads are     *)
(* spawned (line source, worker manager, sequencer); the worker manager    *)
(* runs WORKER_COUNT decode tasks per round in a rayon scope; the caller   *)
(* receives from the channel read_async returns.                           *)

\* A channel end is alive until the thread that owns it returns or panics.
LineSenderAlive == rd_pc = "run"
LineReceiverAlive == mgr_pc \notin {"done", "panicked"}
ResultSenderAlive == mgr_pc \notin {"done", "panicked"}
ResultReceiverAlive == seq_pc \notin {"done", "panicked"}
ElementSenderAlive == seq_pc \notin {"done", "panicked"}
ElementReceiverAlive == caller_pc # "dropped"

InitPipeline ==
    /\ input \in Inputs
    /\ rd_pc = "run" /\ rd_pos = 0 /\ rd_idx = 0
    /\ line_q = <<>>
    /\ reader_done = FALSE /\ worker_done = FALSE
    /\ mtx_owner = "none" /\ poisoned = FALSE /\ ready = FALSE
    /\ mgr_pc = "check" /\ mgr_round = 0
    /\ task_pc = [i \in Workers |-> "idle"]
    /\ task_item = [i \in Workers |-> NoItem]
    /\ results_q = <<>>
    /\ seq_pc = "check" /\ seq_n = 0
    /\ elements = <<>>          \* Vec::with_capacity: no element yet
    /\ out_q = <<>> /\ received = <<>>
    /\ caller_pc = "recv"

\* ---- line source thread, reader.rs:54-75 ----

\* mutant of NextIdx: the tag counts the lines and is never wrapped
NextIdxNoWrap(idx) == idx + 1

\* reader.rs:73: idx = (idx + 1) % *WORKER_COUNT as u64
NextIdx(idx) == (idx + 1) % WORKER_COUNT

\* reader.rs:57-66, 73: read a line, send (idx, line), advance idx.  send
\* blocks while the queue is full and fails, so unwrap panics, once the
\* receiving side is gone.
ReaderSend ==
    /\ rd_pc = "run"
    /\ rd_pos < Len(input)
    /\ Len(line_q) < LINE_BUFFER_SIZE \/ ~LineReceiverAlive
    /\ rd_pos' = rd_pos + 1
    /\ IF ~LineReceiverAlive
       THEN /\ rd_pc' = "panicked"
            /\ UNCHANGED <<line_q, rd_idx>>
       ELSE /\ line_q' = Append(line_q, [slot |-> rd_idx, k |-> rd_pos + 1,
                                         line |-> input[rd_pos + 1]])
            /\ rd_idx' = NextIdx(rd_idx)
            /\ rd_pc' = rd_pc
    /\ UNCHANGED <<ivars, tvars, dvars, input, reader_done, worker_done,
                   mtx_owner, poisoned, ready, mgr_pc, mgr_round, task_pc,
                   task_item, results_q, seq_pc, seq_n, elements, out_q,
                   received, caller_pc>>

\* reader.rs:58-64: read_until leaves the line empty at the end of the input
ReaderEof ==
    /\ rd_pc = "run"
    /\ rd_pos = Len(input)
    /\ reader_done' = TRUE
    /\ rd_pc' = "done"
    /\ UNCHANGED <<ivars, tvars, dvars, input, rd_pos, rd_idx, line_q,
                   worker_done, mtx_owner, poisoned, ready, mgr_pc, mgr_round,
                   task_pc, task_item, results_q, seq_pc, seq_n, elements,
                   out_q, received, caller_pc>>

\* ---- worker manager thread, reader.rs:81-117 ----

\* reader.rs:83, 115-116: the loop test; once reader_done is seen the
\* manager sets worker_done and returns
MgrCheck ==
    /\ mgr_pc = "check"
    /\ IF reader_done
       THEN /\ worker_done' = TRUE
            /\ mgr_pc' = "done"
       ELSE /\ mgr_pc' = "lock"
            /\ worker_done' = worker_done
    /\ UNCHANGED <<ivars, tvars, dvars, input, rd_pc, rd_pos, rd_idx, line_q,
                   reader_done, mtx_owner, poisoned, ready, mgr_round, task_pc,
                   task_item, results_q, seq_pc, seq_n, elements, out_q,
                   received, caller_pc>>

\* reader.rs:84-92: lock the signal mutex (the guard `ready`), open the
\* scope and spawn WORKER_COUNT decode tasks
MgrLock ==
    /\ mgr_pc = "lock"
    /\ mtx_owner = "none"
    /\ IF poisoned
       THEN /\ mgr_pc' = "panicked"
            /\ UNCHANGED <<mtx_owner, mgr_round, task_pc>>
       ELSE /\ mtx_owner' = "mgr"
            /\ mgr_pc' = "scope"
            /\ mgr_round' = mgr_round + 1
            /\ task_pc' = [i \in Workers |-> "recv"]
    /\ UNCHANGED <<ivars, tvars, dvars, input, rd_pc, rd_pos, rd_idx, line_q,
                   reader_done, worker_done, poisoned, ready, task_item,
                   results_q, seq_pc, seq_n, elements, out_q, received,
                   caller_pc>>

\* reader.rs:93-96: line_recv.recv() blocks while the queue is empty and the
\* line source lives; it fails, and the task returns, once the queue is
\* empty and the line source is gone
TaskRecv(i) ==
    /\ task_pc[i] = "recv"
    /\ line_q # <<>> \/ ~LineSenderAlive
    /\ IF line_q # <<>>
       THEN /\ task_item' = [task_item EXCEPT ![i] =
                                [slot |-> Head(line_q).slot, k |-> Head(line_q).k,
                                 line |-> Head(line_q).line, res |-> NoRes]]
            /\ line_q' = Tail(line_q)
            /\ task_pc' = [task_pc EXCEPT ![i] = "decode"]
       ELSE /\ task_pc' = [task_pc EXCEPT ![i] = "finished"]
            /\ UNCHANGED <<task_item, line_q>>
    /\ UNCHANGED <<ivars, tvars, dvars, input, rd_pc, rd_pos, rd_idx,
                   reader_done, worker_done, mtx_owner, poisoned, ready,
                   mgr_pc, mgr_round, results_q, seq_pc, seq_n, elements,
                   out_q, received, caller_pc>>

\* reader.rs:98: deserialize_element on the shared interner; a panic of the
\* decoder is a panic of the task
TaskDecode(i) ==
    /\ task_pc[i] = "decode"
    /\ LET r == DeserializeElement(imap, task_item[i].line)
       IN  /\ imap' = r.map
           /\ allocs' = allocs + r.inserted
           /\ task_item' = [task_item EXCEPT ![i].res =
                               [kind |-> r.kind, err |-> r.err, el |-> r.el]]
           /\ task_pc' = [task_pc EXCEPT ![i] =
                             IF r.kind = "panic" THEN "panicked" ELSE "send"]
    /\ UNCHANGED <<ilock, tvars, dvars, input, rd_pc, rd_pos, rd_idx, line_q,
                   reader_done, worker_done, mtx_owner, poisoned, ready,
                   mgr_pc, mgr_round, results_q, seq_pc, seq_n, elements,
                   out_q, received, caller_pc>>

\* reader.rs:99-100: results_send.send((idx, element)).unwrap()
TaskSend(i) ==
    /\ task_pc[i] = "send"
    /\ Len(results_q) < LINE_BUFFER_SIZE \/ ~ResultReceiverAlive
    /\ IF ~ResultReceiverAlive
       THEN /\ task_pc' = [task_pc EXCEPT ![i] = "panicked"]
            /\ results_q' = results_q
       ELSE /\ results_q' = Append(results_q,
                                   [slot |-> task_item[i].slot, k |-> task_item[i].k,
                                    res |-> task_item[i].res])
            /\ task_pc' = [task_pc EXCEPT ![i] = "finished"]
    /\ UNCHANGED <<ivars, tvars, dvars, input, rd_pc, rd_pos, rd_idx, line_q,
                   reader_done, worker_done, mtx_owner, poisoned, ready,
                   mgr_pc, mgr_round, task_item, seq_pc, seq_n, elements,
                   out_q, received, caller_pc>>

\* reader.rs:103-107: the scope returns when every task has ended, and
\* resumes the panic of a task in the manager (its guard is dropped while
\* panicking, which poisons the mutex); otherwise *ready = true; notify_one()
MgrScopeEnd ==
    /\ mgr_pc = "scope"
    /\ \A i \in Workers : task_pc[i] \in {"finished", "panicked"}
    /\ IF \E i \in Workers : task_pc[i] = "panicked"
       THEN /\ mgr_pc' = "panicked"
            /\ poisoned' = TRUE
            /\ mtx_owner' = "none"
            /\ ready' = ready
       ELSE /\ ready' = TRUE
            /\ mgr_pc' = "relock"
            /\ UNCHANGED <<poisoned, mtx_owner>>
    /\ UNCHANGED <<ivars, tvars, dvars, input, rd_pc, rd_pos, rd_idx, line_q,
                   reader_done, worker_done, mgr_round, task_pc, task_item,
                   results_q, seq_pc, seq_n, elements, out_q, received,
                   caller_pc>>

\* what lock() does in a thread that already holds the mutex: std leaves it
\* unspecified, but the call does not return; it deadlocks or panics
RelockOutcomes == {"deadlock", "panic"}

\* reader.rs:110: let mut ready = lock.lock().unwrap(), with the guard of
\* reader.rs:84 still alive (shadowing a binding does not drop it).  The
\* call never returns, so reader.rs:111-114 never runs.
MgrRelock ==
    /\ mgr_pc = "relock"
    /\ \E outcome \in RelockOutcomes :
          IF outcome = "deadlock"
          THEN /\ mgr_pc' = "deadlock"
               /\ UNCHANGED <<poisoned, mtx_owner>>
          ELSE /\ mgr_pc' = "panicked"
               /\ poisoned' = TRUE
               /\ mtx_owner' = "none"
    /\ UNCHANGED <<ivars, tvars, dvars, input, rd_pc, rd_pos, rd_idx, line_q,
                   reader_done, worker_done, ready, mgr_round, task_pc,
                   task_item, results_q, seq_pc, seq_n, elements, out_q,
                   received, caller_pc>>

\* ---- sequencer thread, reader.rs:121-155 ----

\* reader.rs:125: the loop test; the thread returns once worker_done is seen
SeqCheck ==
    /\ seq_pc = "check"
    /\ seq_pc' = IF worker_done THEN "done" ELSE "lock"
    /\ UNCHANGED <<ivars, tvars, dvars, input, rd_pc, rd_pos, rd_idx, line_q,
                   reader_done, worker_done, mtx_owner, poisoned, ready,
                   mgr_pc, mgr_round, task_pc, task_item, results_q, seq_n,
                   elements, out_q, received, caller_pc>>

\* reader.rs:127: lock.lock().unwrap(); a poisoned mutex makes unwrap panic
SeqLock ==
    /\ seq_pc = "lock"
    /\ mtx_owner = "none"
    /\ IF poisoned
       THEN /\ seq_pc' = "panicked"
            /\ mtx_owner' = mtx_owner
       ELSE /\ mtx_owner' = "seq"
            /\ seq_pc' = "test"
    /\ UNCHANGED <<ivars, tvars, dvars, input, rd_pc, rd_pos, rd_idx, line_q,
                   reader_done, worker_done, poisoned, ready, mgr_pc,
                   mgr_round, task_pc, task_item, results_q, seq_n, elements,
                   out_q, received, caller_pc>>

\* reader.rs:128-129: while !*ready; sigvar.wait(ready) releases the mutex
SeqTest ==
    /\ seq_pc = "test"
    /\ IF ready
       THEN /\ seq_pc' = "drain"
            /\ mtx_owner' = mtx_owner
       ELSE /\ seq_pc' = "waiting"
            /\ mtx_owner' = "none"
    /\ UNCHANGED <<ivars, tvars, dvars, input, rd_pc, rd_pos, rd_idx, line_q,
                   reader_done, worker_done, poisoned, ready, mgr_pc,
                   mgr_round, task_pc, task_item, results_q, seq_n, elements,
                   out_q, received, caller_pc>>

\* reader.rs:129: wait returns, after a notify or spuriously, once it has the
\* mutex again; a poisoned mutex makes unwrap panic
SeqWake ==
    /\ seq_pc = "waiting"
    /\ mtx_owner = "none"
    /\ IF poisoned
       THEN /\ seq_pc' = "panicked"
            /\ mtx_owner' = mtx_owner
       ELSE /\ mtx_owner' = "seq"
            /\ seq_pc' = "test"
    /\ UNCHANGED <<ivars, tvars, dvars, input, rd_pc, rd_pos, rd_idx, line_q,
                   reader_done, worker_done, poisoned, ready, mgr_pc,
                   mgr_round, task_pc, task_item, results_q, seq_n, elements,
                   out_q, received, caller_pc>>

\* ---- the caller of read_async, as in test::basic (reader.rs:173-184) ----

\* reader.rs:176-182: one recv() per input line; recv blocks while the
\* channel is empty and the sequencer lives, and fails once it is empty and
\* the sequencer is gone
CallerRecv ==
    /\ caller_pc = "recv"
    /\ Len(received) < Len(input)
    /\ out_q # <<>> \/ ~ElementSenderAlive
    /\ IF out_q # <<>>
       THEN /\ received' = Append(received, Head(out_q))
            /\ out_q' = Tail(out_q)
            /\ caller_pc' = caller_pc
       ELSE /\ caller_pc' = "disconnected"
            /\ UNCHANGED <<received, out_q>>
    /\ UNCHANGED <<ivars, tvars, dvars, input, rd_pc, rd_pos, rd_idx, line_q,
                   reader_done, worker_done, mtx_owner, poisoned, ready,
                   mgr_pc, mgr_round, task_pc, task_item, results_q, seq_pc,
                   seq_n, elements>>

\* the caller stops reading: the Receiver read_async returned goes out of
\* scope (as chan does when test::basic ends, reader.rs:185)
CallerDrop ==
    /\ caller_pc = "recv"
    /\ caller_pc' = "dropped"
    /\ UNCHANGED <<ivars, tvars, dvars, input, rd_pc, rd_pos, rd_idx, line_q,
                   reader_done, worker_done, mtx_owner, poisoned, ready,
                   mgr_pc, mgr_round, task_pc, task_item, results_q, seq_pc,
                   seq_n, elements, out_q, received>>

Init == InitInterner /\ InitThreads /\ InitDecoder /\ InitPipeline

\* the steps of each thread
ReaderStep == ReaderSend \/ ReaderEof
MgrStep == MgrCheck \/ MgrLock \/ MgrScopeEnd \/ MgrRelock
TaskStep(i) == TaskRecv(i) \/ TaskDecode(i) \/ TaskSend(i)
SeqStep == SeqCheck \/ SeqLock \/ SeqTest \/ SeqWake

\* the pipeline with a caller that keeps receiving
PipelineStep ==
    \/ ReaderStep
    \/ MgrStep
    \/ \E i \in Workers : TaskStep(i)
    \/ SeqStep
    \/ CallerRecv

Next == PipelineStep \/ CallerDrop

Spec == Init /\ [][Next]_vars

\* Every thread is an OS thread (or a task on a pool with a worker per
\* task): one that can take a step is eventually scheduled to take it.
Fairness ==
    /\ WF_vars(ReaderStep)
    /\ WF_vars(MgrStep)
    /\ \A i \in Workers : WF_vars(TaskStep(i))
    /\ WF_vars(SeqStep)
    /\ WF_vars(CallerRecv)

\* the pipeline under fair scheduling, with a caller that keeps receiving
FairSpec == Init /\ [][PipelineStep]_vars /\ Fairness

\* The rest of the sequencer's loop, reader.rs:132-153.  It runs only after
\* SeqTest has seen ready = TRUE with the sequencer holding the mutex, and
\* the manager makes ready TRUE only in MgrScopeEnd, holding the mutex it
\* never gives back un-poisoned (MgrRelock): no behaviour of Spec reaches
\* these steps (SequencerNeverDrains), and Next does not list them.

\* reader.rs:132-140: one iteration of the receive loop.  recv fails, and the
\* thread returns, once the queue is empty and the manager is gone;
\* elements[el.0] = Some(el.1) indexes a Vec that has capacity but no
\* element, so it panics with the guard held, which poisons the mutex.
SeqDrain ==
    /\ seq_pc = "drain"
    /\ results_q # <<>> \/ ~ResultSenderAlive
    /\ IF results_q = <<>>
       THEN /\ seq_pc' = "done"
            /\ mtx_owner' = "none"
            /\ UNCHANGED <<results_q, elements, seq_n, poisoned>>
       ELSE /\ results_q' = Tail(results_q)
            /\ IF Head(results_q).slot + 1 > Len(elements)
               THEN /\ seq_pc' = "panicked"
                    /\ poisoned' = TRUE
                    /\ mtx_owner' = "none"
                    /\ UNCHANGED <<elements, seq_n>>
               ELSE /\ elements' = [elements EXCEPT ![Head(results_q).slot + 1] =
                                       Head(results_q).res]
                    /\ seq_n' = IF seq_n + 1 = WORKER_COUNT THEN 0 ELSE seq_n + 1
                    /\ seq_pc' = IF seq_n + 1 = WORKER_COUNT THEN "emit" ELSE "drain"
                    /\ UNCHANGED <<poisoned, mtx_owner>>
    /\ UNCHANGED <<ivars, tvars, dvars, input, rd_pc, rd_pos, rd_idx, line_q,
                   reader_done, worker_done, ready, mgr_pc, mgr_round, task_pc,
                   task_item, out_q, received, caller_pc>>

\* reader.rs:142-149: send the next slot of the buffer, in slot order; an
\* empty slot panics
SeqEmit ==
    /\ seq_pc = "emit"
    /\ Len(out_q) < RESULTS_BUFFER_SIZE \/ ~ElementReceiverAlive
    /\ IF seq_n + 1 > Len(elements) \/ ~ElementReceiverAlive
       THEN /\ seq_pc' = "panicked"
            /\ poisoned' = TRUE
            /\ mtx_owner' = "none"
            /\ UNCHANGED <<out_q, seq_n>>
       ELSE /\ out_q' = Append(out_q, elements[seq_n + 1])
            /\ seq_n' = IF seq_n + 1 = Len(elements) THEN 0 ELSE seq_n + 1
            /\ seq_pc' = IF seq_n + 1 = Len(elements) THEN "reset" ELSE "emit"
            /\ UNCHANGED <<poisoned, mtx_owner>>
    /\ UNCHANGED <<ivars, tvars, dvars, input, rd_pc, rd_pos, rd_idx, line_q,
                   reader_done, worker_done, ready, mgr_pc, mgr_round, task_pc,
                   task_item, results_q, elements, received, caller_pc>>

\* reader.rs:152-154: *ready = false; notify_one(); the guard is dropped at
\* the end of the iteration
SeqReset ==
    /\ seq_pc = "reset"
    /\ ready' = FALSE
    /\ mtx_owner' = "none"
    /\ seq_pc' = "check"
    /\ UNCHANGED <<ivars, tvars, dvars, input, rd_pc, rd_pos, rd_idx, line_q,
                   reader_done, worker_done, poisoned, mgr_pc, mgr_round,
                   task_pc, task_item, results_q, seq_n, elements, out_q,
                   received, caller_pc>>

----------------------------------------------------------------------------
(* Vocabulary of the claims about the Interner.                            *)

\* the decimal text of an unsigned integer, most significant digit first
DigitChar(d) ==
    CASE d = 0 -> "0" [] d = 1 -> "1" [] d = 2 -> "2" [] d = 3 -> "3"
      [] d = 4 -> "4" [] d = 5 -> "5" [] d = 6 -> "6" [] d = 7 -> "7"
      [] d = 8 -> "8" [] d = 9 -> "9"

RECURSIVE ToDecimal(_)
ToDecimal(n) ==
    IF n < 10 THEN <<DigitChar(n)>>
    ELSE Append(ToDecimal(n \div 10), DigitChar(n % 10))

\* largest unsigned integer whose decimal text the claims range over
MaxNumber == 11

\* a text that is read as a number: str::parse::<u64> accepts it
IsNumeral(s) == ParseU64(s).kind = "ok"

\* the number a numeral stands for
NumVal(s) == ParseU64(s).v

\* raw is some text between an opening and a closing quote
IsQuoted(raw) == Len(raw) >= 2 /\ raw[1] = Q /\ raw[Len(raw)] = Q

Inner(raw) == SubSeq(raw, 2, Len(raw) - 1)

\* raw is a quoted string whose text is not a number
QuotedNonNumeric(raw) == IsQuoted(raw) /\ ~IsNumeral(Inner(raw))

\* raw is the bare or the quoted text of some number
NumericInput(raw) == IsNumeral(raw) \/ (IsQuoted(raw) /\ IsNumeral(Inner(raw)))

\* the threads whose last call has returned
Returned == {t \in Threads : it_pc[t] = "done"}

----------------------------------------------------------------------------
\* C5: Interner injectivity.  After any sequence of intern calls on one
\* Interner, two distinct non-numeric quoted strings were given different
\* ids, and the mapping holds no two keys with the same id.
C5_Injective ==
    /\ \A r1 \in DOMAIN seen : \A r2 \in DOMAIN seen :
          (QuotedNonNumeric(r1) /\ QuotedNonNumeric(r2) /\ r1 # r2)
              => seen[r1] # seen[r2]
    /\ \A s1 \in DOMAIN imap : \A s2 \in DOMAIN imap :
          s1 # s2 => imap[s1] # imap[s2]

\* C5 witness: two distinct non-numeric quoted strings have been interned.
C5_Witness ==
    \E r1 \in DOMAIN seen : \E r2 \in DOMAIN seen :
        /\ r1 # r2
        /\ QuotedNonNumeric(r1) /\ QuotedNonNumeric(r2)
        /\ seen[r1].kind = "ok" /\ seen[r2].kind = "ok"

Denotes(raw) ==
    IF IsNumeral(raw) THEN [num |-> TRUE, n |-> NumVal(raw), s |-> <<>>]
    ELSE IF IsNumeral(Inner(raw)) THEN [num |-> TRUE, n |-> NumVal(Inner(raw)), s |-> <<>>]
    ELSE [num |-> FALSE, n |-> 0, s |-> Inner(raw)]

\* C7: every unique input maps to a unique output.  Stated in the form most
\* favourable to the code: two inputs (bare numbers, quoted numbers, quoted
\* non-numeric strings, in any mix) that denote different identifiers were
\* given different ids.  The claim as written asks this of every two distinct
\* raw inputs, so a violation of this formula violates the claim.
C7_UniqueInputUniqueOutput ==
    \A r1 \in DOMAIN seen : \A r2 \in DOMAIN seen :
        ( /\ NumericInput(r1) \/ QuotedNonNumeric(r1)
          /\ NumericInput(r2) \/ QuotedNonNumeric(r2)
          /\ Denotes(r1) # Denotes(r2) )
            => seen[r1] # seen[r2]

\* C8: numeric passthrough.  For every unsigned integer n, intern of the bare
\* text n and of the quoted text "n" both return n, and neither call adds an
\* entry to the interner's mapping or changes it otherwise: the call returns
\* in the step that makes it, before the lock (the mapping changes only in
\* InternInsert, under the lock), and no numeral is ever a key of the mapping.
C8_NumericPassthrough ==
    /\ \A n \in 0..MaxNumber :
          /\ ToDecimal(n) \in DOMAIN seen => seen[ToDecimal(n)] = Ok(n)
          /\ Quote(ToDecimal(n)) \in DOMAIN seen => seen[Quote(ToDecimal(n))] = Ok(n)
    /\ \A t \in Threads :
          NumericInput(it_raw[t]) =>
              /\ it_pc[t] \in {"idle", "done"}
              /\ it_ret[t] = Ok(NumVal(IF IsNumeral(it_raw[t]) THEN it_raw[t]
                                       ELSE Inner(it_raw[t])))
    /\ \A s \in DOMAIN imap : ~IsNumeral(s)

\* C8 witness: both the bare and the quoted text of one number were interned.
C8_Witness ==
    \E n \in 0..MaxNumber :
        /\ ToDecimal(n) \in DOMAIN seen
        /\ Quote(ToDecimal(n)) \in DOMAIN seen

\* C9: intern of the empty byte string returns Ok(0), never an error, and
\* leaves the mapping alone (the call returns in the step that makes it,
\* before the lock); no interned non-numeric string is ever given id 0.
C9_EmptyIsZero ==
    /\ <<>> \in DOMAIN seen => seen[<<>>] = Ok(0)
    /\ \A t \in Threads :
          (it_raw[t] = <<>> /\ it_pc[t] # "idle") =>
              (it_pc[t] = "done" /\ it_ret[t] = Ok(0))
    /\ \A s \in DOMAIN imap : imap[s] # 0
    /\ \A r \in DOMAIN seen : QuotedNonNumeric(r) => seen[r] # Ok(0)

\* C9 witness: the empty input has been interned on an Interner that also
\* holds an interned string.
C9_Witness ==
    /\ <<>> \in DOMAIN seen
    /\ \E r \in DOMAIN seen : QuotedNonNumeric(r)
    /\ imap # EmptyMap

\* the threads inside the critical section of intern (interner.rs:47-53)
InCritical == {t \in Threads : it_pc[t] \in {"lookup", "insert"}}

\* C10: Interner thread-safety.  The lookup-then-insert of a new string is
\* atomic under the single lock (at most one thread is between lookup and
\* insert, and it holds the lock); in every interleaving two threads that
\* intern the same new string get the same id, two threads that intern
\* different new strings get different ids, and no id is assigned twice.
C10_ThreadSafe ==
    /\ Cardinality(InCritical) <= 1
    /\ \A t \in InCritical : ilock = t
    /\ \A t1 \in Returned : \A t2 \in Returned :
          (QuotedNonNumeric(it_raw[t1]) /\ QuotedNonNumeric(it_raw[t2])) =>
              (Inner(it_raw[t1]) = Inner(it_raw[t2]) <=> it_ret[t1] = it_ret[t2])
    /\ Cardinality({imap[s] : s \in DOMAIN imap}) = allocs

\* C10 witness: one thread is between its lookup and its insert of a new
\* string while another thread waits for the lock to intern a new string.
C10_Witness ==
    \E t1 \in Threads : \E t2 \in Threads :
        /\ t1 # t2
        /\ it_pc[t1] = "insert"
        /\ it_pc[t2] = "lock"
        /\ ~ContainsKey(imap, it_s[t1])
        /\ ~ContainsKey(imap, it_s[t2])

\* C25: dense first-seen id allocation.  With n distinct strings interned
\* the values of the mapping are exactly 1..n, and an entry once inserted is
\* never changed or removed: every non-numeric quoted string that was
\* interned is still a key, with the id its first call returned.  Both
\* holding in every state, the i-th string first seen has id i (the entry
\* that takes the values from 1..i-1 to 1..i is the new one, and it is i).
C25_DenseFirstSeen ==
    /\ {imap[s] : s \in DOMAIN imap} = 1..Cardinality(DOMAIN imap)
    /\ \A r \in DOMAIN seen :
          QuotedNonNumeric(r) =>
              /\ Inner(r) \in DOMAIN imap
              /\ seen[r].kind = "ok" /\ seen[r].v = imap[Inner(r)]
    /\ \A t \in Threads :
          it_pc[t] = "insert" => it_id[t] = Cardinality(DOMAIN imap) + 1

\* C25 witness: a second string has been interned after a first one, which
\* still has id 1; the second one has id 2.
C25_Witness ==
    \E r1 \in DOMAIN seen : \E r2 \in DOMAIN seen :
        /\ QuotedNonNumeric(r1) /\ QuotedNonNumeric(r2)
        /\ seen[r1].kind = "ok" /\ seen[r1].v = 1
        /\ seen[r2].kind = "ok" /\ seen[r2].v = 2
        /\ Cardinality(DOMAIN imap) = 2

\* an input that does not begin with a quote byte
Unquoted(raw) == raw = <<>> \/ raw[1] # Q

\* the inputs that intern was called with so far
Called == (DOMAIN seen) \cup {it_raw[t] : t \in {u \in Threads : it_pc[u] # "idle"}}

\* the calls of intern on raw are refused, and stay out of the mapping: each
\* has returned a ParseIntError in the step that made it, before the lock
\* (the mapping changes only in InternInsert, under the lock)
Refused(raw) ==
    /\ raw \in DOMAIN seen => seen[raw].kind = "err"
    /\ \A t \in Threads :
          (it_raw[t] = raw /\ it_pc[t] # "idle") =>
              (it_pc[t] = "done" /\ it_ret[t].kind = "err")

\* C26 as written: every input that does not begin with a quote byte and
\* is not a base-10 unsigned integer, the empty input included, makes intern
\* return a parse error and leaves the mapping unchanged.
C26_UnquotedNonIntegerRefused ==
    \A raw \in Called : (Unquoted(raw) /\ ~IsNumeral(raw)) => Refused(raw)

\* C26, amended: every non-empty input that does not begin with a quote
\* byte and is not an unsigned decimal numeral as str::parse::<u64> reads
\* one (digits, with or without a '+' in front) makes intern return a parse
\* error and leaves the mapping unchanged.
C26_NonEmptyUnquotedNonIntegerRefused ==
    \A raw \in Called :
        (raw # <<>> /\ Unquoted(raw) /\ ~IsNumeral(raw)) => Refused(raw)

\* C26 witness: an unquoted text that is no number has been refused by an
\* Interner that holds an interned string.
C26_Witness ==
    /\ imap # EmptyMap
    /\ \E t \in Returned :
          /\ it_raw[t] # <<>> /\ Unquoted(it_raw[t]) /\ ~IsNumeral(it_raw[t])
          /\ it_ret[t].kind = "err"

----------------------------------------------------------------------------
(* Claims about deserialize_element, under SpecDecode.                     *)

\* a member that is present and neither a JSON unsigned integer nor a JSON
\* string: null, a boolean, an array, an object, a negative or fractional number
NotAnId(v) == v.t \in {"null", "other"}

\* a record with a readable envelope whose id, or (on an edge) whose outV,
\* inV, document or some element of inVs, is not an identifier
BadIdLine(line) ==
    /\ line.json /\ IsString(line, "type") /\ IsString(line, "label")
    /\ \/ NotAnId(line.id)
       \/ /\ Field(line, "type").s = "edge"
          /\ \/ NotAnId(line.outV) \/ NotAnId(line.inV) \/ NotAnId(line.document)
             \/ \E k \in 1..Len(line.inVs.items) : NotAnId(line.inVs.items[k])

\* C4: a record whose id (or an edge's outV / inV / document / inVs element)
\* is neither a JSON unsigned integer nor a JSON string makes
\* deserialize_element return a typed decode error: it never panics and
\* never silently defaults the id.
C4_BadIdIsTypedError ==
    \A k \in 1..Len(dec_hist) :
        BadIdLine(dec_hist[k].line) => dec_hist[k].res.kind = "err"

\* a vertex record { "id": <id>, "type": "vertex", "label": "project" }
IdRecord(line) == \E id \in IdValues : line = Vertex(id, "project", <<>>)

\* a text with a character that is no digit
NonNumericText(s) == \E i \in 1..Len(s) : ~IsDigit(s[i])

\* C11: decoding a record whose id is a JSON string s, non-numeric s
\* included, succeeds; two records with the same string id get the same
\* Element id, two records with different non-numeric string ids get
\* different ids; a record whose id is the JSON integer n gets Element id n.
C11_IdResolved ==
    /\ \A k \in 1..Len(dec_hist) :
          IdRecord(dec_hist[k].line) =>
             /\ dec_hist[k].line.id.t = "str" => dec_hist[k].res.kind = "ok"
             /\ dec_hist[k].line.id.t = "uint" =>
                   /\ dec_hist[k].res.kind = "ok"
                   /\ dec_hist[k].res.el.id = dec_hist[k].line.id.n
    /\ \A j, k \in 1..Len(dec_hist) :
          (/\ IdRecord(dec_hist[j].line) /\ dec_hist[j].line.id.t = "str"
           /\ IdRecord(dec_hist[k].line) /\ dec_hist[k].line.id.t = "str"
           /\ dec_hist[j].res.kind = "ok" /\ dec_hist[k].res.kind = "ok")
          => /\ dec_hist[j].line.id.s = dec_hist[k].line.id.s
                   => dec_hist[j].res.el.id = dec_hist[k].res.el.id
             /\ (/\ dec_hist[j].line.id.s # dec_hist[k].line.id.s
                 /\ NonNumericText(dec_hist[j].line.id.s)
                 /\ NonNumericText(dec_hist[k].line.id.s))
                   => dec_hist[j].res.el.id # dec_hist[k].res.el.id

\* an edge record, sound but for its end points, with a JSON string as outV
\* or as inV (the other one an unsigned integer, inV possibly absent)
StringEndpointEdge(line) ==
    /\ line.json /\ IsString(line, "type") /\ IsString(line, "label")
    /\ Field(line, "type").s = "edge"
    /\ line.id.t = "uint"
    /\ line.outV.t \in {"uint", "str"}
    /\ line.inV.t \in {"uint", "str", "absent"}
    /\ line.outV.t = "str" \/ line.inV.t = "str"
    /\ line.document.t = "absent" /\ line.inVs.t = "absent"

\* what interning the text of an end point directly gives, on the
\* Interner as the decoder left it
Direct(v) == Intern(imap, v.s).res

C13_PayloadShape ==
    \A k \in 1..Len(dec_hist) :
        dec_hist[k].res.kind = "ok" =>
           /\ dec_hist[k].res.el.el_type = Field(dec_hist[k].line, "type").s
           /\ dec_hist[k].res.el.label = Field(dec_hist[k].line, "label").s
           /\ dec_hist[k].res.el.el_type = "edge" =>
                 dec_hist[k].res.el.payload.variant = "Edge"
           /\ dec_hist[k].res.el.el_type = "vertex" =>
                 /\ dec_hist[k].res.el.payload.variant # "Edge"
                 /\ dec_hist[k].res.el.payload.variant # "None"
                       <=> dec_hist[k].res.el.label \in VertexLabels

\* an edge labelled like a vertex of the table, and a vertex of the table,
\* have both been decoded
C13_Witness ==
    /\ \E k \in 1..Len(dec_hist) :
          /\ dec_hist[k].res.kind = "ok"
          /\ dec_hist[k].res.el.el_type = "edge"
          /\ dec_hist[k].res.el.label \in VertexLabels
          /\ dec_hist[k].res.el.payload.variant = "Edge"
    /\ \E k \in 1..Len(dec_hist) :
          /\ dec_hist[k].res.kind = "ok"
          /\ dec_hist[k].res.el.el_type = "vertex"
          /\ dec_hist[k].res.el.payload.variant \notin {"None", "Edge"}

\* a vertex record whose envelope the decoder accepts: id an unsigned
\* integer, or a string the Interner takes, type "vertex", label a string
WellFormedVertex(line) ==
    /\ line.json /\ IsString(line, "type") /\ IsString(line, "label")
    /\ Field(line, "type").s = "vertex"
    /\ \/ line.id.t = "uint"
       \/ line.id.t = "str" /\ Intern(EmptyMap, line.id.s).res.kind = "ok"

\* C14: a vertex record with a well-formed envelope and a label that is not
\* in the dispatch table decodes to Ok(Element) with the payload absent,
\* whatever other fields the record carries.
C14_UnknownLabelNoPayload ==
    \A k \in 1..Len(dec_hist) :
        (/\ WellFormedVertex(dec_hist[k].line)
         /\ Field(dec_hist[k].line, "label").s \notin VertexLabels)
        => /\ dec_hist[k].res.kind = "ok"
           /\ dec_hist[k].res.el.payload = NoPayload
           /\ dec_hist[k].res.el.label = Field(dec_hist[k].line, "label").s

\* a "$event" vertex with a further field and a "project" vertex with a
\* string id have been decoded
C14_Witness ==
    /\ \E k \in 1..Len(dec_hist) :
          /\ WellFormedVertex(dec_hist[k].line)
          /\ Field(dec_hist[k].line, "label").s = "$event"
          /\ "kind" \in DOMAIN dec_hist[k].line.fields
          /\ dec_hist[k].res.el.payload = NoPayload
    /\ \E k \in 1..Len(dec_hist) :
          /\ WellFormedVertex(dec_hist[k].line)
          /\ dec_hist[k].line.id.t = "str"
          /\ Field(dec_hist[k].line, "label").s = "project"
          /\ dec_hist[k].res.kind = "ok"

\* a moniker vertex whose kind, scheme and identifier are JSON strings
MonikerRecord(line) ==
    /\ WellFormedVertex(line)
    /\ Field(line, "label").s = "moniker"
    /\ IsString(line, "kind") /\ IsString(line, "scheme") /\ IsString(line, "identifier")

\* C15: a moniker record with an empty scheme decodes to a Moniker payload
\* with scheme "local"; a non-empty scheme, and the kind and the
\* identifier, are copied unchanged.
C15_MonikerScheme ==
    \A k \in 1..Len(dec_hist) :
        MonikerRecord(dec_hist[k].line) =>
           /\ dec_hist[k].res.kind = "ok"
           /\ dec_hist[k].res.el.payload.variant = "Moniker"
           /\ Len(dec_hist[k].res.el.payload.text) = 3
           /\ dec_hist[k].res.el.payload.text[1] = Field(dec_hist[k].line, "kind").s
           /\ dec_hist[k].res.el.payload.text[3] = Field(dec_hist[k].line, "identifier").s
           /\ Field(dec_hist[k].line, "scheme").s = "" =>
                 dec_hist[k].res.el.payload.text[2] = "local"
           /\ Field(dec_hist[k].line, "scheme").s # "" =>
                 dec_hist[k].res.el.payload.text[2] = Field(dec_hist[k].line, "scheme").s

\* a moniker with an empty scheme and one with a scheme of its own, of
\* different kinds, have been decoded
C15_Witness ==
    \E j, k \in 1..Len(dec_hist) :
        /\ MonikerRecord(dec_hist[j].line) /\ MonikerRecord(dec_hist[k].line)
        /\ Field(dec_hist[j].line, "scheme").s = ""
        /\ dec_hist[j].res.el.payload.text[2] = "local"
        /\ Field(dec_hist[k].line, "scheme").s # ""
        /\ dec_hist[k].res.el.payload.text[2] # "local"
        /\ dec_hist[j].res.el.payload.text[1] # dec_hist[k].res.el.payload.text[1]

\* C16: a vertex record with label diagnosticResult always decodes to a
\* Diagnostics payload holding an empty list; no field beyond the envelope
\* is required.
C16_DiagnosticsAlwaysEmpty ==
    \A k \in 1..Len(dec_hist) :
        (/\ WellFormedVertex(dec_hist[k].line)
         /\ Field(dec_hist[k].line, "label").s = "diagnosticResult")
        => /\ dec_hist[k].res.kind = "ok"
           /\ dec_hist[k].res.el.payload = MkPayload("Diagnostics", NoEdge, <<>>, <<>>)

\* an edge record with a sound envelope and an integer id
EdgeRecord(line) ==
    /\ line.json /\ IsString(line, "type") /\ IsString(line, "label")
    /\ Field(line, "type").s = "edge"
    /\ line.id.t = "uint"

\* an edge record whose outV is an integer and whose inV, document and
\* inVs elements are integers where they are given
IntegerEdge(line) ==
    /\ EdgeRecord(line)
    /\ line.outV.t = "uint"
    /\ line.inV.t \in {"uint", "absent"}
    /\ line.document.t \in {"uint", "absent"}
    /\ line.inVs.t \in {"array", "absent"}
    /\ \A n \in 1..Len(line.inVs.items) : line.inVs.items[n].t = "uint"

\* the Edge that a decoded record carries
EdgeOf(h) == h.res.el.payload.edge

\* C27: edge defaults.  An edge record without outV is a decode error.  An
\* edge record with integers for outV and for what it gives of inV, inVs
\* and document decodes to an Edge; and in every decoded Edge in_v is 0
\* when inV is omitted, in_vs is empty when inVs is omitted, document is 0
\* when document is omitted, and an integer outV, inV, document or inVs
\* element is copied unchanged.
C27_EdgeDefaults ==
    \A k \in 1..Len(dec_hist) :
        EdgeRecord(dec_hist[k].line) =>
           /\ dec_hist[k].line.outV.t = "absent" => dec_hist[k].res.kind = "err"
           /\ IntegerEdge(dec_hist[k].line) => dec_hist[k].res.kind = "ok"
           /\ dec_hist[k].res.kind = "ok" =>
                 /\ dec_hist[k].res.el.payload.variant = "Edge"
                 /\ dec_hist[k].line.inV.t = "absent" => EdgeOf(dec_hist[k]).in_v = 0
                 /\ dec_hist[k].line.inVs.t = "absent" => EdgeOf(dec_hist[k]).in_vs = <<>>
                 /\ dec_hist[k].line.document.t = "absent" =>
                        EdgeOf(dec_hist[k]).document = 0
                 /\ dec_hist[k].line.outV.t = "uint" =>
                        EdgeOf(dec_hist[k]).out_v = dec_hist[k].line.outV.n
                 /\ dec_hist[k].line.inV.t = "uint" =>
                        EdgeOf(dec_hist[k]).in_v = dec_hist[k].line.inV.n
                 /\ dec_hist[k].line.document.t = "uint" =>
                        EdgeOf(dec_hist[k]).document = dec_hist[k].line.document.n
                 /\ dec_hist[k].line.inVs.t = "array" =>
                        /\ Len(EdgeOf(dec_hist[k]).in_vs) = Len(dec_hist[k].line.inVs.items)
                        /\ \A n \in 1..Len(dec_hist[k].line.inVs.items) :
                              dec_hist[k].line.inVs.items[n].t = "uint" =>
                                  EdgeOf(dec_hist[k]).in_vs[n] =
                                      dec_hist[k].line.inVs.items[n].n

\* C27 witness: the record { "id": 54, "type": "edge", "label": "contains",
\* "outV": 2, "inVs": [4] } was decoded to out_v 2, in_vs [4] with in_v and
\* document defaulted, and an edge record without outV was refused.
C27_Witness ==
    \E j, k \in 1..Len(dec_hist) :
        /\ dec_hist[j].line = [BaseEdge EXCEPT !.inVs = JArray(<<JInt(4)>>)]
        /\ dec_hist[j].res.kind = "ok"
        /\ EdgeOf(dec_hist[j]) =
               [out_v |-> 2, in_v |-> 0, in_vs |-> <<4>>, document |-> 0]
        /\ dec_hist[k].line = [BaseEdge EXCEPT !.outV = JAbsent]
        /\ dec_hist[k].res.kind = "err"

----------------------------------------------------------------------------
(* Claims about the pipeline, under Spec.                                  *)

\* the Result<Element> of a decode, as the channels carry it
ResultOf(r) == [kind |-> r.kind, err |-> r.err, el |-> r.el]

\* the lines decoded one by one, in input order, on one interner
RECURSIVE DecodeInOrder(_, _, _)
DecodeInOrder(map, lines, acc) ==
    IF lines = <<>> THEN acc
    ELSE DecodeInOrder(DeserializeElement(map, Head(lines)).map, Tail(lines),
                       Append(acc, ResultOf(DeserializeElement(map, Head(lines)))))

ExpectedResults == DecodeInOrder(EmptyMap, input, <<>>)

\* the decoder returns, with an element or with an error, on every line
DecodesToResults ==
    \A k \in 1..Len(ExpectedResults) : ExpectedResults[k].kind # "panic"

\* the manager has ended or is stuck for good, the sequencer is not inside
\* its drain, and nothing is in flight to the caller: what the caller has
\* received is all it will ever receive
Settled ==
    /\ mgr_pc \in {"done", "panicked", "deadlock"}
    /\ seq_pc \notin {"drain", "emit", "reset"}
    /\ out_q = <<>>

\* Lemma: the sequencer never sees ready = TRUE, so it never drains.
SequencerNeverDrains == seq_pc \notin {"drain", "emit", "reset"}

\* Lemma: a settled pipeline stays settled and delivers nothing more.
SettledIsFinal == [][Settled => (Settled' /\ received' = received)]_vars

\* C1: for an input of M lines, M a multiple of WORKER_COUNT, the results
\* a caller that keeps receiving gets are, in order, the results of
\* decoding line 1, line 2, ..., line M.
C1_OrderPreserved ==
    (/\ Settled /\ caller_pc # "dropped"
     /\ Len(input) % WORKER_COUNT = 0 /\ DecodesToResults)
        => received = ExpectedResults

\* C2: the caller receives one result per input line: each of its M recv
\* calls yields a result, none finds the channel disconnected, also when M
\* is no multiple of WORKER_COUNT.
C2_OneResultPerLine ==
    /\ caller_pc # "disconnected"
    /\ (Settled /\ caller_pc # "dropped") => Len(received) = Len(input)

\* C3: a line that fails to decode is not fatal to the pipeline: the
\* failure is the result of that line, and no decode task ends because of it.
C3_DecodeFailureNotFatal ==
    \A i \in DOMAIN task_pc :
        task_pc[i] = "panicked" => task_item[i].res.kind # "panic"

\* a step in which a thread's failed channel operation is a panic: send on
\* line_send (reader.rs:73), on results_send (reader.rs:100) or on
\* element_sender (reader.rs:148)
ChannelOpPanics ==
    \/ rd_pc = "run" /\ rd_pc' = "panicked"
    \/ \E i \in DOMAIN task_pc : task_pc[i] = "send" /\ task_pc'[i] = "panicked"
    \/ seq_pc = "emit" /\ seq_pc' = "panicked"

\* C17: once the caller has dropped the output receiver, a pipeline thread
\* whose channel operation fails exits quietly, by a normal return and not
\* by a panic.
C17_QuietCancellation == [][caller_pc = "dropped" => ~ChannelOpPanics]_vars

\* the three threads have returned, flags set, output channel closed
Terminated ==
    /\ reader_done /\ rd_pc = "done"
    /\ worker_done /\ mgr_pc = "done"
    /\ seq_pc = "done"

\* C18: for a finite input whose line count is a multiple of WORKER_COUNT
\* and a caller that keeps receiving, eventually the line source has set
\* reader_done, the manager has set worker_done and returned, and the
\* sequencer has returned, which closes the output channel.
C18_Terminates == (Len(input) % WORKER_COUNT = 0) => <>Terminated

\* C19: whenever the manager has completed a round and set ready, the
\* sequencer eventually observes it, drains the round and resets ready, so
\* that the manager proceeds; and the manager never locks a mutex it
\* already holds.
C19_HandshakeProgress ==
    /\ ready ~> ~ready
    /\ [](mgr_pc = "relock" => mtx_owner # "mgr")

\* Lemma: the manager never starts a second round (its first round ends in
\* MgrRelock), so no task of a round n+1 exists.
AtMostOneRound == mgr_round <= 1

\* Lemma: while a decode task of the round is at work the manager holds the
\* signal mutex and ready is FALSE, which keeps the sequencer out of its drain.
DecodeExcludesDrain ==
    (\E i \in DOMAIN task_pc : task_pc[i] \in {"recv", "decode", "send"})
        => /\ mtx_owner = "mgr" /\ ~ready
           /\ seq_pc \notin {"test", "drain", "emit", "reset"}


\* C21: reorder-buffer bounds.  From the first round on the reorder buffer
\* has WORKER_COUNT entries, so that the store of the drain at index slot
\* and every read of the re-emission at an index in 0..WORKER_COUNT-1 hit an
\* element that exists; the sequencer never fails with an index out of range.
C21_ReorderBufferBounds ==
    /\ mgr_round >= 1 => Len(elements) = WORKER_COUNT
    /\ (seq_pc = "drain" /\ results_q # <<>>) =>
           Head(results_q).slot + 1 <= Len(elements)
    /\ seq_pc = "emit" => seq_n + 1 <= Len(elements)

\* C22: no line is dropped at shutdown.  The manager has marked itself done
\* only with the line queue empty: every line the line source enqueued was
\* pulled by a decode task, also when reader_done was set before the
\* manager's first test of it.
C22_NoLineDropped == worker_done => line_q = <<>>

\* the (idx, line) pairs in flight: in the line queue, held by a decode
\* task, or (with their result) in the result queue
Tagged ==
    {[slot |-> line_q[n].slot, k |-> line_q[n].k] : n \in 1..Len(line_q)}
    \cup {[slot |-> task_item[i].slot, k |-> task_item[i].k] :
             i \in {w \in DOMAIN task_item : task_item[w].k # 0}}
    \cup {[slot |-> results_q[n].slot, k |-> results_q[n].k] :
             n \in 1..Len(results_q)}

\* C23: slot tagging.  The k-th line the line source reads, k counted from
\* 0, travels with slot k mod WORKER_COUNT; slots are in 0..WORKER_COUNT-1,
\* and the lines that follow each other have the slots that follow each
\* other cyclically (the next line gets the slot after the last one's).
\* The ghost k of the model counts from 1.
C23_SlotTagging ==
    /\ \A x \in Tagged :
          /\ x.slot = (x.k - 1) % WORKER_COUNT
          /\ x.slot \in 0..(WORKER_COUNT - 1)
    /\ rd_pc = "run" => rd_idx = rd_pos % WORKER_COUNT
    /\ \A m, n \in 1..Len(line_q) :
          n = m + 1 => line_q[n].slot = (line_q[m].slot + 1) % WORKER_COUNT

\* C23 witness: the line source has tagged more lines than there are slots,
\* so the slot has wrapped: line WORKER_COUNT (from 0) waits in the line
\* queue with slot 0 behind a line with slot WORKER_COUNT - 1.
C23_Witness ==
    \E m, n \in 1..Len(line_q) :
        /\ n = m + 1
        /\ line_q[m].slot = WORKER_COUNT - 1
        /\ line_q[n].slot = 0 /\ line_q[n].k = WORKER_COUNT + 1

\* the slots of the results of the round that the manager has completed
\* (no drain has taken any of them: SequencerNeverDrains)
RoundSlots == {results_q[n].slot : n \in 1..Len(results_q)}

\* C24: slots are unique within a round.  The results of a completed round,
\* which are what the sequencer drains in one wake, carry pairwise distinct
\* slots that cover exactly 0..WORKER_COUNT-1, the round's tasks having
\* pulled WORKER_COUNT consecutive lines from a slot-0 line on.
C24_RoundSlotsComplete ==
    ready =>
        /\ Len(results_q) = WORKER_COUNT
        /\ RoundSlots = 0..(WORKER_COUNT - 1)


\* a vertex record with a sound envelope, an integer id and the label
\* hoverResult, whatever else it holds
HoverRecord(line) ==
    /\ line.json /\ IsString(line, "type") /\ IsString(line, "label")
    /\ Field(line, "type").s = "vertex"
    /\ Field(line, "label").s = "hoverResult"
    /\ line.id.t = "uint"

\* Lemma (the decoder's half of C28, under SpecDecode and Spec): a
\* hoverResult record decodes to the error Other, in deserialize_element
\* and in the decode task that holds it.
HoverDecodesToOther ==
    /\ \A k \in 1..Len(dec_hist) :
          HoverRecord(dec_hist[k].line) =>
              (dec_hist[k].res.kind = "err" /\ dec_hist[k].res.err = "Other")
    /\ \A n \in 1..Len(results_q) :
          HoverRecord(input[results_q[n].k]) =>
              (results_q[n].res.kind = "err" /\ results_q[n].res.err = "Other")

\* C28: a hoverResult vertex record decodes to the error Other whatever its
\* content, and that error is carried through the pipeline as the result of
\* the record: a caller that keeps receiving (input of a multiple of
\* WORKER_COUNT lines, none of which makes the decoder panic) has it as the
\* result at the record's position once the pipeline has settled.
C28_HoverErrorCarried ==
    /\ HoverDecodesToOther
    /\ (/\ Settled /\ caller_pc # "dropped"
        /\ Len(input) % WORKER_COUNT = 0 /\ DecodesToResults)
          => \A k \in 1..Len(input) :
                HoverRecord(input[k]) =>
                    /\ k <= Len(received)
                    /\ received[k].kind = "err" /\ received[k].err = "Other"

=============================================================================
